---- MODULE Spec2Model ----
\* A model of the cba helper library (cli_boilerplate_automation):
\*   bog.rs   the global leveled logger and its scoped reconfiguration
\*   bath.rs  lexical path normalization
\*   broc.rs  shell quoting of command lines
\*   bo.rs    typed file save and load
\* Option<T> values are sequences: None is << >> and Some(x) is << x >>.
EXTENDS Integers, Sequences, FiniteSets, TLC

VARIABLES
    GLOBAL_BOGGER,  \* Option<GLOBAL_BOGGER_STRUCT>, the value inside the mutex
    stack,          \* the frames of the Bogger::with calls that have not returned
    written,        \* what the latest call handed to writer.write_all
    last,           \* name of the latest call made on the logger
    verbosity,      \* Some(v): init_filter(v) set the threshold now in force
    path,           \* bath.rs: the path normalize is first called on
    normalized,     \* bath.rs: the results of the normalize calls made so far
    inputs,         \* broc.rs: the arguments given to format_sh_command
    cmd,            \* broc.rs: Some(the command line format_sh_command returned)
    words,          \* broc.rs: Some(what a POSIX shell splits cmd into)
    files,          \* the file system: the content of each file, by resolved path
    dumped,         \* bo.rs: Some(the latest dump_type call and what it returned)
    loaded,         \* bo.rs: Some(the latest load_type call and what it returned)
    outcome,        \* Some(how the latest call of a fallible function ended)
    environ,        \* the process environment: Some(the value of SHELL) when set
    SHELL,          \* broc.rs: the SHELL static, None until first dereferenced
    lock,           \* bog.rs: Some(the thread holding the GLOBAL_BOGGER mutex)
    thr             \* per thread: where it is in its call of the logger

logvars == << GLOBAL_BOGGER, stack, written, last, verbosity >>

pathvars == << path, normalized >>

shvars == << inputs, cmd, words >>

iovars == << files, dumped, loaded, outcome >>

\* What the logger's calls leave alone.
procvars == << environ, SHELL >>

syncvars == << lock, thr >>

libvars == << pathvars, shvars, iovars, procvars, syncvars >>

vars == << GLOBAL_BOGGER, stack, written, last, verbosity, path, normalized,
           inputs, cmd, words, files, dumped, loaded, outcome, environ, SHELL,
           lock, thr >>

None == << >>

Some(x) == << x >>

is_some(o) == o # << >>

unwrap(o) == o[1]

\* ---------------------------------------------------------------- bounds

\* Deepest nesting of Bogger::with calls explored under Spec.
MaxDepth == 1

\* Deepest nesting of Bogger::with calls explored under SpecScope.
ScopeDepth == 2

\* Deepest nesting of Bogger::with calls explored under SpecBounds.
BoundsDepth == 1

\* Largest verbosity passed to init_filter, besides u8::MAX.
MaxVerbosity == 5

\* Longest path normalize is called on, in characters.
MaxPathLen == 6

\* Number of successive normalize calls on one path.
MaxCalls == 2

\* Longest argument given to format_sh_command, in characters.
MaxArgLen == 2

\* Most arguments given to format_sh_command in one call.
MaxArgs == 2

\* Longest path given to dump_type and load_type, in characters.
MaxIoPathLen == 3

\* Most chunks or lines of an input given to map_chunks and map_reader_lines.
MaxChunks == 3

\* u32::MAX, the index at which map_chunks and map_reader_lines stop reading,
\* scaled down so that the inputs reach it.
U32_MAX == 2

\* Most entries of a directory given to clear_directory.
MaxEntries == 2

\* ---------------------------------------------------------------- bog.rs

U8_MAX == 255

INIT_DOWNCAST_PRIORITY == 255

INIT_MIN_PRIORITY == 0

\* enum BogLevel; CUSTOM stands for CUSTOM(CustomLabel).
BogLevel == { "NOTE", "ERROR", "WARN", "INFO", "DEBUG", "DNOTE", "ALL", "CUSTOM" }

CustomLabel == "CUST"

\* BogFmter::priority (the default method; neither Fg nor Bg overrides it).
priority(level) ==
    CASE level = "NOTE" -> 120
      [] level = "ERROR" -> 100
      [] level = "WARN" -> 80
      [] level = "INFO" -> 60
      [] level = "DEBUG" -> 40
      [] level = "DNOTE" -> 20
      [] level = "ALL" -> 0
      [] level = "CUSTOM" -> 120

\* Fg::begin_tag and Bg::begin_tag; <ESC> stands for the byte 0x1b.
begin_tag(fmt, level) ==
    IF fmt = "Fg"
    THEN CASE level = "NOTE" -> "<ESC>[34m[NOTE"
           [] level = "ERROR" -> "<ESC>[31m[ERRO"
           [] level = "WARN" -> "<ESC>[33m[WARN"
           [] level = "INFO" -> "<ESC>[32m[INFO"
           [] level = "DEBUG" -> "<ESC>[35m[DBUG"
           [] level = "DNOTE" -> "<ESC>[30m[DNTE"
           [] level = "ALL" -> "<ESC>[m["
           [] level = "CUSTOM" -> "<ESC>[34m[" \o CustomLabel
    ELSE CASE level = "NOTE" -> "<ESC>[30;44mNOTE "
           [] level = "ERROR" -> "<ESC>[30;41mERROR"
           [] level = "WARN" -> "<ESC>[30;43mWARN "
           [] level = "INFO" -> "<ESC>[30;42mINFO "
           [] level = "DEBUG" -> "<ESC>[30;45mDEBUG"
           [] level = "DNOTE" -> "<ESC>[30;47mDNOTE"
           [] level = "ALL" -> "<ESC>[30;m"
           [] level = "CUSTOM" -> "<ESC>[30;44m" \o CustomLabel

\* Fg::end_tag and Bg::end_tag.
end_tag(fmt) == IF fmt = "Fg" THEN "]<ESC>[0m" ELSE " <ESC>[0m"

\* BogFmter::push_tag (Fg keeps the default ": ", Bg overrides it with "| ").
push_tag(fmt, s, tag) ==
    IF tag # ""
    THEN s \o (IF fmt = "Fg" THEN ": " ELSE "| ") \o tag
    ELSE s

\* BogFmter::format.
format(fmt, level, tag, msg) ==
    LET s == push_tag(fmt, begin_tag(fmt, level), tag) \o end_tag(fmt)
    IN  IF msg # "" THEN s \o " " \o msg ELSE s

\* GLOBAL_BOGGER_STRUCT::init_global: the struct it stores.
init_global(fmt, writer) ==
    [ formatter    |-> fmt,
      writer       |-> writer,
      downcast_to  |-> << INIT_DOWNCAST_PRIORITY, "ERROR" >>,
      min_level    |-> << INIT_MIN_PRIORITY, "DEBUG" >>,
      prefix       |-> "",
      suffix       |-> "",
      tag_override |-> None ]

\* A bog that never downcasts.
shown_level_own(b, level) == level

\* GLOBAL_BOGGER_STRUCT::bog: the level the line is shown with.
shown_level(b, level) ==
    IF priority(level) > b.downcast_to[1] THEN b.downcast_to[2] ELSE level

\* bog dropping a message whose priority equals the threshold.
bog_drops_at_threshold(b, level, tag, msg) ==
    LET effective_tag == IF is_some(b.tag_override) THEN unwrap(b.tag_override) ELSE tag
        lvl == IF priority(level) > b.downcast_to[1] THEN b.downcast_to[2] ELSE level
        formatted == format(b.formatter, lvl, effective_tag, b.prefix \o msg)
    IN  IF priority(level) <= b.min_level[1]
        THEN << >>
        ELSE << [ to |-> b.writer, level |-> lvl, bytes |-> formatted \o b.suffix \o "\n" ] >>

\* GLOBAL_BOGGER_STRUCT::bog: the writes it makes, as a sequence of
\* [to, bytes] records; the struct itself is left as it is.
bog(b, level, tag, msg) ==
    LET pri == priority(level)
        effective_tag == IF is_some(b.tag_override) THEN unwrap(b.tag_override) ELSE tag
        formatted ==
            IF b.prefix # ""
            THEN format(b.formatter, shown_level(b, level), effective_tag, b.prefix \o msg)
            ELSE format(b.formatter, shown_level(b, level), effective_tag, msg)
        suffixed == IF b.suffix # "" THEN formatted \o b.suffix ELSE formatted
    IN  IF pri < b.min_level[1]
        THEN << >>
        ELSE << [ to |-> b.writer, level |-> shown_level(b, level), bytes |-> suffixed \o "\n" ] >>

\* GLOBAL_BOGGER_STRUCT::pause.
pause(b) == [ b EXCEPT !.min_level = << U8_MAX, b.min_level[2] >> ]

\* GLOBAL_BOGGER_STRUCT::resume.
resume(b) == [ b EXCEPT !.min_level = << priority(b.min_level[2]), b.min_level[2] >> ]

\* GLOBAL_BOGGER_STRUCT::filter_below.
filter_below(b, lvl) == [ b EXCEPT !.min_level = << priority(lvl), lvl >> ]

\* GLOBAL_BOGGER_STRUCT::downcast_above.
downcast_above(b, lvl) == [ b EXCEPT !.downcast_to = << priority(lvl), lvl >> ]

\* GLOBAL_BOGGER_STRUCT::bounds.
bounds(b) == << b.min_level, b.downcast_to >>

\* GLOBAL_BOGGER_STRUCT::set_bounds.
set_bounds(b, bnds) == [ b EXCEPT !.min_level = bnds[1], !.downcast_to = bnds[2] ]

\* BogContext: every builder chain over the given levels and strings.
BogContext(Lv, Str) ==
    [ bounds       : { << lo, up >> : lo \in {None} \cup { Some(l) : l \in Lv },
                                      up \in {None} \cup { Some(l) : l \in Lv } },
      pause        : BOOLEAN,
      prefix       : {None} \cup { Some(s) : s \in Str },
      suffix       : {None} \cup { Some(s) : s \in Str },
      tag_override : {None} \cup { Some(s) : s \in Str } ]

\* Bogger::with, lines 252-269: the context applied to the struct.
apply_context(b, context) ==
    LET b1 == IF is_some(context.bounds[1]) THEN filter_below(b, unwrap(context.bounds[1])) ELSE b
        b2 == IF is_some(context.bounds[2]) THEN downcast_above(b1, unwrap(context.bounds[2])) ELSE b1
        b3 == IF is_some(context.prefix) THEN [ b2 EXCEPT !.prefix = unwrap(context.prefix) ] ELSE b2
        b4 == IF is_some(context.suffix) THEN [ b3 EXCEPT !.suffix = unwrap(context.suffix) ] ELSE b3
        b5 == IF is_some(context.tag_override) THEN [ b4 EXCEPT !.tag_override = context.tag_override ] ELSE b4
    IN  IF context.pause THEN pause(b5) ELSE b5

\* Bogger::with, lines 242-277: the locals kept across the closure.
saved_state(g, context) ==
    IF is_some(g)
    THEN [ prev_bounds  |-> Some(bounds(unwrap(g))),
           prev_paused  |-> Some(bounds(unwrap(g))[1][1] = U8_MAX),
           prev_prefix  |-> Some(unwrap(g).prefix),
           prev_suffix  |-> Some(unwrap(g).suffix),
           prev_tag     |-> unwrap(g).tag_override,
           context_tag  |-> context.tag_override ]
    ELSE [ prev_bounds  |-> None,
           prev_paused  |-> None,
           prev_prefix  |-> None,
           prev_suffix  |-> None,
           prev_tag     |-> None,
           context_tag  |-> context.tag_override ]

\* restore_state without the branch that clears a tag the context set.
restore_state_keeps_tag(b, fr) ==
    LET b1 == IF is_some(fr.prev_bounds) THEN set_bounds(b, unwrap(fr.prev_bounds)) ELSE b
        b2 == IF is_some(fr.prev_paused)
              THEN (IF unwrap(fr.prev_paused) THEN pause(b1) ELSE resume(b1))
              ELSE b1
        b3 == IF is_some(fr.prev_prefix) THEN [ b2 EXCEPT !.prefix = unwrap(fr.prev_prefix) ] ELSE b2
        b4 == IF is_some(fr.prev_suffix) THEN [ b3 EXCEPT !.suffix = unwrap(fr.prev_suffix) ] ELSE b3
    IN  IF is_some(fr.prev_tag)
        THEN [ b4 EXCEPT !.tag_override = fr.prev_tag ]
        ELSE b4

\* Bogger::with, lines 285-305: the saved state put back into the struct.
restore_state(b, fr) ==
    LET b1 == IF is_some(fr.prev_bounds) THEN set_bounds(b, unwrap(fr.prev_bounds)) ELSE b
        b2 == IF is_some(fr.prev_paused)
              THEN (IF unwrap(fr.prev_paused) THEN pause(b1) ELSE resume(b1))
              ELSE b1
        b3 == IF is_some(fr.prev_prefix) THEN [ b2 EXCEPT !.prefix = unwrap(fr.prev_prefix) ] ELSE b2
        b4 == IF is_some(fr.prev_suffix) THEN [ b3 EXCEPT !.suffix = unwrap(fr.prev_suffix) ] ELSE b3
    IN  IF is_some(fr.prev_tag)
        THEN [ b4 EXCEPT !.tag_override = fr.prev_tag ]
        ELSE IF is_some(fr.context_tag)
             THEN [ b4 EXCEPT !.tag_override = None ]
             ELSE b4

\* filter_level with the arm for 4 selecting DEBUG.
filter_level_4_is_debug(v) ==
    CASE v = 0 -> "ERROR"
      [] v = 1 -> "WARN"
      [] v = 2 -> "INFO"
      [] v = 3 -> "DEBUG"
      [] v = 4 -> "DEBUG"
      [] OTHER -> "ALL"

\* init_filter: the level a verbosity selects.
filter_level(v) ==
    CASE v = 0 -> "ERROR"
      [] v = 1 -> "WARN"
      [] v = 2 -> "INFO"
      [] v = 3 -> "DEBUG"
      [] v = 4 -> "DNOTE"
      [] OTHER -> "ALL"

\* ------------------------------------------------------- logger actions

\* init_bogger(fg, output_stderr).
init_bogger(fg, output_stderr) ==
    /\ GLOBAL_BOGGER' = Some(init_global(IF fg THEN "Fg" ELSE "Bg",
                                         IF output_stderr THEN "stderr" ELSE "stdout"))
    /\ written' = << >>
    /\ last' = "init_bogger"
    /\ verbosity' = None
    /\ UNCHANGED stack

\* Bogger::bog(level, tag, msg).
Bogger_bog(level, tag, msg) ==
    /\ written' = IF is_some(GLOBAL_BOGGER)
                  THEN bog(unwrap(GLOBAL_BOGGER), level, tag, msg)
                  ELSE << >>
    /\ last' = "bog"
    /\ UNCHANGED << GLOBAL_BOGGER, stack, verbosity >>

\* Bogger::filter_below with a logger made on the spot when there is none.
filter_below_initialises(lvl) ==
    /\ GLOBAL_BOGGER' = Some(filter_below(IF is_some(GLOBAL_BOGGER)
                                          THEN unwrap(GLOBAL_BOGGER)
                                          ELSE init_global("Fg", "stderr"), lvl))
    /\ written' = << >>
    /\ last' = "filter_below"
    /\ verbosity' = None
    /\ UNCHANGED stack

\* Bogger::filter_below(lvl).
Bogger_filter_below(lvl) ==
    /\ GLOBAL_BOGGER' = IF is_some(GLOBAL_BOGGER)
                        THEN Some(filter_below(unwrap(GLOBAL_BOGGER), lvl))
                        ELSE GLOBAL_BOGGER
    /\ written' = << >>
    /\ last' = "filter_below"
    /\ verbosity' = None
    /\ UNCHANGED stack

\* Bogger::downcast_above(lvl).
Bogger_downcast_above(lvl) ==
    /\ GLOBAL_BOGGER' = IF is_some(GLOBAL_BOGGER)
                        THEN Some(downcast_above(unwrap(GLOBAL_BOGGER), lvl))
                        ELSE GLOBAL_BOGGER
    /\ written' = << >>
    /\ last' = "downcast_above"
    /\ UNCHANGED << stack, verbosity >>

\* init_filter(verbosity): Bogger::filter_below of the level selected.
init_filter(v) ==
    /\ GLOBAL_BOGGER' = IF is_some(GLOBAL_BOGGER)
                        THEN Some(filter_below(unwrap(GLOBAL_BOGGER), filter_level(v)))
                        ELSE GLOBAL_BOGGER
    /\ written' = << >>
    /\ last' = "init_filter"
    /\ verbosity' = IF is_some(GLOBAL_BOGGER) THEN Some(v) ELSE None
    /\ UNCHANGED stack

\* Bogger::pause().
Bogger_pause ==
    /\ GLOBAL_BOGGER' = IF is_some(GLOBAL_BOGGER)
                        THEN Some(pause(unwrap(GLOBAL_BOGGER)))
                        ELSE GLOBAL_BOGGER
    /\ written' = << >>
    /\ last' = "pause"
    /\ UNCHANGED << stack, verbosity >>

\* Bogger::resume().
Bogger_resume ==
    /\ GLOBAL_BOGGER' = IF is_some(GLOBAL_BOGGER)
                        THEN Some(resume(unwrap(GLOBAL_BOGGER)))
                        ELSE GLOBAL_BOGGER
    /\ written' = << >>
    /\ last' = "resume"
    /\ UNCHANGED << stack, verbosity >>

\* Bogger::with(context, f) up to the call of f: the state is saved in a new
\* frame, together with the logger as it was on entry (pre), and the context
\* applied.
with_enter(context, depth) ==
    /\ Len(stack) < depth
    /\ stack' = << saved_state(GLOBAL_BOGGER, context)
                   @@ [ pre |-> GLOBAL_BOGGER ] >> \o stack
    /\ GLOBAL_BOGGER' = IF is_some(GLOBAL_BOGGER)
                        THEN Some(apply_context(unwrap(GLOBAL_BOGGER), context))
                        ELSE GLOBAL_BOGGER
    /\ written' = << >>
    /\ last' = "with_enter"
    /\ verbosity' = IF is_some(context.bounds[1]) THEN None ELSE verbosity

\* Bogger::with(context, f) from the return of f: the innermost frame's saved
\* state is restored.
with_exit ==
    /\ stack # << >>
    /\ GLOBAL_BOGGER' = IF is_some(GLOBAL_BOGGER)
                        THEN Some(restore_state(unwrap(GLOBAL_BOGGER), Head(stack)))
                        ELSE GLOBAL_BOGGER
    /\ stack' = Tail(stack)
    /\ written' = << >>
    /\ last' = "with_exit"
    /\ verbosity' = None

\* The verbosities init_filter is called with.
Verbosities == (0 .. MaxVerbosity) \cup { U8_MAX }

Tags == { "t" }

Msgs == { "m" }

\* The threads that use the logger.
Threads == { "t1", "t2" }

\* No call of the logger is pending in a thread.
NoOp == [ kind |-> "none", level |-> "", context |-> << >> ]

\* The mutex is free and no thread is inside a call of the logger.
SyncIdle ==
    /\ lock = None
    /\ thr = [ t \in Threads |-> [ pc |-> "run", op |-> NoOp, frames |-> << >>, returned |-> None ] ]

LoggerInit ==
    /\ GLOBAL_BOGGER = None
    /\ stack = << >>
    /\ written = << >>
    /\ last = "start"
    /\ verbosity = None
    /\ SyncIdle

PathIdle == path = << >> /\ normalized = << >>

ShIdle == inputs = << >> /\ cmd = << >> /\ words = << >>

NoFiles == [ k \in { } |-> << >> ]

\* The process was started without SHELL and has not looked at it yet.
ProcIdle == environ = << >> /\ SHELL = << >>

IoIdle ==
    files = NoFiles /\ dumped = << >> /\ loaded = << >> /\ outcome = << >> /\ ProcIdle

Init == LoggerInit /\ PathIdle /\ ShIdle /\ IoIdle

\* --------------------------------------------------------------- Spec
\* The logger under every call of its interface. The threshold calls reach
\* every level through init_filter; scopes are entered with FullContext.

FilterLevels == { "WARN" }

\* BogContext::new().prefix("p").suffix("s").tag("g")
FullContext ==
    [ bounds |-> << None, None >>, pause |-> FALSE,
      prefix |-> Some("p"), suffix |-> Some("s"), tag_override |-> Some("g") ]

Next ==
    /\ UNCHANGED libvars
    /\ \/ \E fg \in {TRUE} : init_bogger(fg, TRUE)
       \/ \E level \in BogLevel, tag \in Tags, msg \in Msgs : Bogger_bog(level, tag, msg)
       \/ \E lvl \in FilterLevels : Bogger_filter_below(lvl)
       \/ \E lvl \in FilterLevels : Bogger_downcast_above(lvl)
       \/ \E v \in Verbosities : init_filter(v)
       \/ Bogger_pause
       \/ Bogger_resume
       \/ with_enter(FullContext, MaxDepth)
       \/ with_exit

Spec == Init /\ [][Next]_vars

\* ---------------------------------------------------------- SpecScope
\* Nested Bogger::with scopes over every context that sets a subset of
\* prefix, suffix and tag, with messages logged in between.

ScopeStrings == { "", "a" }

ScopeContexts == { c \in BogContext({}, ScopeStrings) : ~c.pause }

NextScope ==
    /\ UNCHANGED libvars
    /\ \/ \E fg \in BOOLEAN : init_bogger(fg, FALSE)
       \/ \E tag \in Tags, msg \in Msgs : Bogger_bog("INFO", tag, msg)
       \/ \E context \in ScopeContexts : with_enter(context, ScopeDepth)
       \/ with_exit

SpecScope == Init /\ [][NextScope]_vars

\* --------------------------------------------------------- SpecBounds
\* Bogger::with scopes that set bounds and pause, entered from every state
\* the threshold, ceiling, pause and resume calls reach.

BoundsLevels == { "WARN", "DNOTE" }

NextBounds ==
    /\ UNCHANGED libvars
    /\ \/ init_bogger(TRUE, TRUE)
       \/ \E level \in BogLevel, tag \in Tags, msg \in Msgs : Bogger_bog(level, tag, msg)
       \/ \E lvl \in BoundsLevels : Bogger_filter_below(lvl)
       \/ \E lvl \in BoundsLevels : Bogger_downcast_above(lvl)
       \/ Bogger_pause
       \/ Bogger_resume
       \/ \E context \in BogContext(BoundsLevels, {}) : with_enter(context, BoundsDepth)
       \/ with_exit

SpecBounds == Init /\ [][NextBounds]_vars

\* The floor and the ceiling set to every pair of levels, with messages of
\* every level.
NextFilter ==
    /\ UNCHANGED libvars
    /\ \/ init_bogger(TRUE, TRUE)
       \/ \E level \in BogLevel, tag \in Tags, msg \in Msgs : Bogger_bog(level, tag, msg)
       \/ \E lvl \in BogLevel : Bogger_filter_below(lvl)
       \/ \E lvl \in BogLevel : Bogger_downcast_above(lvl)
       \/ Bogger_pause
       \/ Bogger_resume

SpecFilter == Init /\ [][NextFilter]_vars

\* ------------------------------------------- bog.rs: the lock and threads

\* The depth to which one thread nests Bogger::with and Bogger::paused.
ThreadDepth == 2

\* A call of the logger that takes no context.
Op(kind, level) == [ kind |-> kind, level |-> level, context |-> << >> ]

\* Bogger::with(context, f).
WithOp(context) == [ kind |-> "with", level |-> "", context |-> << context >> ]

\* The guard of Bogger::with's first locked block kept until with returns.
guard_kept_across_closure(t, kind) == IF kind = "with" THEN Some(t) ELSE None

\* The owner of the mutex once a locked block has ended: the guard is bound
\* inside the `if let` of the block and dropped at its closing brace.
drop_guard(t, kind) == None

\* GLOBAL_BOGGER.lock(): the thread blocks until the mutex is free, then holds
\* it for the block of the call op. The value of an earlier call in the
\* thread's own code (outside every scope) has been used by then.
GLOBAL_BOGGER_lock(t, op) ==
    /\ thr[t].pc = "run"
    /\ lock = None
    /\ lock' = Some(t)
    /\ thr' = [ thr EXCEPT ![t].pc = "locked", ![t].op = op,
                           ![t].returned = IF thr[t].frames = << >> THEN None ELSE @ ]
    /\ UNCHANGED logvars

\* The end of a locked block: the guard is dropped and the thread runs on with
\* the given scopes and return value.
release(t, frames, returned) ==
    /\ lock' = drop_guard(t, thr[t].op.kind)
    /\ thr' = [ thr EXCEPT ![t] = [ pc |-> "run", op |-> NoOp,
                                    frames |-> frames, returned |-> returned ] ]

\* Thread t is inside the locked block of a call of the given kind.
locked_in(t, kind) == thr[t].pc = "locked" /\ thr[t].op.kind = kind

\* A scope a thread has entered: what with saved (None for paused), whether no
\* scope is open or has just returned in any thread, and the closure's
\* progress.
Frame(t, kind, saved) ==
    [ kind     |-> kind,
      saved    |-> saved,
      first    |-> \A u \in Threads : thr[u].frames = << >> /\ thr[u].returned = None,
      phase    |-> "entered",
      runs     |-> 0,
      result   |-> "" ]

\* What a scope hands back when it returns: the closure's result, with how
\* often the closure ran and, for a scope entered first, what it found.
Returned(fr) ==
    Some([ kind |-> fr.kind, result |-> fr.result, runs |-> fr.runs,
           before |-> IF fr.first THEN fr.saved ELSE None ])

\* The calls of ops thread t can make next: inside with or paused after the
\* closure has returned, only the scope's own second block.
Callable(t, ops) ==
    LET fs == thr[t].frames
    IN  IF fs # << >> /\ Head(fs).phase = "returned"
        THEN { Op(IF Head(fs).kind = "with" THEN "restore" ELSE "paused_resume", "") }
        ELSE IF fs # << >> /\ Head(fs).phase = "entered"
        THEN { }
        ELSE { op \in ops : op.kind \in { "with", "paused" } => Len(fs) < ThreadDepth }

\* init_bogger in thread t.
thread_init(t) ==
    /\ locked_in(t, "init")
    /\ init_bogger(TRUE, TRUE)
    /\ release(t, thr[t].frames, thr[t].returned)

\* Bogger::bog in thread t.
thread_bog(t) ==
    /\ locked_in(t, "bog")
    /\ Bogger_bog(thr[t].op.level, "t", "m")
    /\ release(t, thr[t].frames, thr[t].returned)

\* Bogger::filter_below in thread t.
thread_filter_below(t) ==
    /\ locked_in(t, "filter_below")
    /\ Bogger_filter_below(thr[t].op.level)
    /\ release(t, thr[t].frames, thr[t].returned)

\* Bogger::downcast_above in thread t.
thread_downcast_above(t) ==
    /\ locked_in(t, "downcast_above")
    /\ Bogger_downcast_above(thr[t].op.level)
    /\ release(t, thr[t].frames, thr[t].returned)

\* Bogger::pause in thread t.
thread_pause(t) ==
    /\ locked_in(t, "pause")
    /\ Bogger_pause
    /\ release(t, thr[t].frames, thr[t].returned)

\* Bogger::resume in thread t.
thread_resume(t) ==
    /\ locked_in(t, "resume")
    /\ Bogger_resume
    /\ release(t, thr[t].frames, thr[t].returned)

\* Bogger::with in thread t, first block: the state is saved and the context
\* applied.
thread_with_enter(t) ==
    /\ locked_in(t, "with")
    /\ GLOBAL_BOGGER' = IF is_some(GLOBAL_BOGGER)
                        THEN Some(apply_context(unwrap(GLOBAL_BOGGER), unwrap(thr[t].op.context)))
                        ELSE GLOBAL_BOGGER
    /\ written' = << >>
    /\ last' = "with_enter"
    /\ UNCHANGED << stack, verbosity >>
    /\ release(t, << Frame(t, "with", Some(saved_state(GLOBAL_BOGGER, unwrap(thr[t].op.context)))) >>
                  \o thr[t].frames, thr[t].returned)

\* Bogger::paused in thread t: its call of Bogger::pause.
thread_paused_enter(t) ==
    /\ locked_in(t, "paused")
    /\ Bogger_pause
    /\ release(t, << Frame(t, "paused", None) >> \o thr[t].frames, thr[t].returned)

\* with and paused call f.
closure_call(t) ==
    /\ thr[t].pc = "run"
    /\ thr[t].frames # << >>
    /\ Head(thr[t].frames).phase = "entered"
    /\ thr' = [ thr EXCEPT ![t].frames[1].phase = "closure",
                           ![t].frames[1].runs = @ + 1 ]
    /\ UNCHANGED << logvars, lock >>

\* f returns v.
closure_return(t, v) ==
    /\ thr[t].pc = "run"
    /\ thr[t].frames # << >>
    /\ Head(thr[t].frames).phase = "closure"
    /\ thr' = [ thr EXCEPT ![t].frames[1].phase = "returned",
                           ![t].frames[1].result = v ]
    /\ UNCHANGED << logvars, lock >>

\* Bogger::with in thread t, second block: the saved state is restored and the
\* closure's result returned.
thread_with_restore(t) ==
    /\ locked_in(t, "restore")
    /\ GLOBAL_BOGGER' = IF is_some(GLOBAL_BOGGER)
                        THEN Some(restore_state(unwrap(GLOBAL_BOGGER),
                                                unwrap(Head(thr[t].frames).saved)))
                        ELSE GLOBAL_BOGGER
    /\ written' = << >>
    /\ last' = "with_exit"
    /\ UNCHANGED << stack, verbosity >>
    /\ release(t, Tail(thr[t].frames), Returned(Head(thr[t].frames)))

\* Bogger::paused in thread t: its call of Bogger::resume, and the return of
\* the closure's result.
thread_paused_exit(t) ==
    /\ locked_in(t, "paused_resume")
    /\ Bogger_resume
    /\ release(t, Tail(thr[t].frames), Returned(Head(thr[t].frames)))

\* The blocks the threads go through that end by dropping the guard.
thread_unlock(t) ==
    \/ thread_init(t)
    \/ thread_bog(t)
    \/ thread_filter_below(t)
    \/ thread_with_enter(t)
    \/ thread_paused_enter(t)
    \/ thread_with_restore(t)
    \/ thread_paused_exit(t)

\* What closures return.
Results == { "r1", "r2" }

\* The context the threads enter.
ThreadContexts ==
    { c \in BogContext({ }, { "a" }) :
        c.prefix = Some("a") /\ c.suffix = None /\ c.tag_override = None /\ ~c.pause }

\* The calls the threads make: the first thread initialises, logs and nests
\* scopes; the second logs and configures.
ThreadOps(t) ==
    IF t = "t1"
    THEN { Op("init", ""), Op("bog", "ERROR"), Op("paused", "") }
         \cup { WithOp(c) : c \in ThreadContexts }
    ELSE { Op("bog", "ERROR"), Op("filter_below", "WARN") }

\* Two threads calling the logger in any order, the first at any nesting inside
\* the closures of with and paused.
NextThreads ==
    /\ UNCHANGED << pathvars, shvars, iovars, procvars >>
    /\ \E t \in Threads :
        \/ \E op \in Callable(t, ThreadOps(t)) : GLOBAL_BOGGER_lock(t, op)
        \/ thread_unlock(t)
        \/ closure_call(t)
        \/ closure_return(t, "r1")

SpecThreads == Init /\ [][NextThreads]_vars

\* The calls made around init_bogger: every function of the logger, the scopes
\* not from inside a closure.
EarlyOps(t) ==
    { Op("init", ""), Op("bog", "ERROR"), Op("filter_below", "WARN"),
      Op("downcast_above", "INFO"), Op("pause", ""), Op("resume", "") }
    \cup IF thr[t].frames = << >>
         THEN { Op("paused", ""), WithOp(FullContext) }
         ELSE { }

\* One thread making every call of the logger before and after init_bogger,
\* with closures returning either result.
NextEarly ==
    /\ UNCHANGED << pathvars, shvars, iovars, procvars >>
    /\ \/ \E op \in Callable("t1", EarlyOps("t1")) : GLOBAL_BOGGER_lock("t1", op)
       \/ thread_unlock("t1")
       \/ thread_downcast_above("t1")
       \/ thread_pause("t1")
       \/ thread_resume("t1")
       \/ closure_call("t1")
       \/ \E v \in Results : closure_return("t1", v)

SpecEarly == Init /\ [][NextEarly]_vars

\* The contexts of the two racing scopes: a prefix, a tag, or a floor.
RaceContexts ==
    { c \in BogContext({ "WARN" }, { "a", "b" }) :
        /\ c.suffix = None
        /\ c.bounds[2] = None
        /\ ~c.pause
        /\ \/ is_some(c.prefix) /\ c.tag_override = None /\ c.bounds[1] = None
           \/ c.prefix = None /\ c.tag_override = Some("a") /\ c.bounds[1] = None
           \/ c.prefix = None /\ c.tag_override = None /\ is_some(c.bounds[1]) }

\* No thread has entered a scope yet.
NoScopeYet == \A u \in Threads : thr[u].frames = << >> /\ thr[u].returned = None

\* The calls of two threads that each run one Bogger::with scope: the logger
\* is set up before the first scope is entered, each thread enters one scope,
\* logs inside the closure, and makes no call after its scope.
RaceOps(t) ==
    IF thr[t].frames # << >>
    THEN { Op("bog", "ERROR") }
    ELSE IF is_some(thr[t].returned)
    THEN { }
    ELSE { WithOp(c) : c \in RaceContexts }
         \cup IF NoScopeYet /\ t = "t1"
              THEN { Op("init", ""), Op("filter_below", "WARN") }
              ELSE { }

\* Two scopes of Bogger::with in two threads, under every interleaving of their
\* locked blocks and closures.
NextRace ==
    /\ UNCHANGED << pathvars, shvars, iovars, procvars >>
    /\ \E t \in Threads :
        \/ \E op \in Callable(t, RaceOps(t)) : GLOBAL_BOGGER_lock(t, op)
        \/ thread_init(t)
        \/ thread_bog(t)
        \/ thread_filter_below(t)
        \/ thread_with_enter(t)
        \/ thread_with_restore(t)
        \/ closure_call(t)
        \/ closure_return(t, "r1")

SpecRace == Init /\ [][NextRace]_vars

\* --------------------------------------------------------------- bath.rs
\* A path is the sequence of its characters (unix: no prefix component).

PathChars == { "/", ".", "a" }

\* The paths of at most n characters.
RECURSIVE PathsUpTo(_)
PathsUpTo(n) ==
    IF n = 0
    THEN { << >> }
    ELSE LET shorter == PathsUpTo(n - 1)
         IN  shorter \cup { Append(q, c) : q \in { r \in shorter : Len(r) = n - 1 }, c \in PathChars }

\* The pieces of s between separators, empty pieces included.
RECURSIVE split_sep(_)
split_sep(s) ==
    IF s = << >>
    THEN << << >> >>
    ELSE LET rest == split_sep(Tail(s))
         IN  IF Head(s) = "/"
             THEN << << >> >> \o rest
             ELSE << << Head(s) >> \o rest[1] >> \o Tail(rest)

\* Path::has_root.
has_root(p) == p # << >> /\ p[1] = "/"

\* Components::include_cur_dir: a leading `.` is kept as a component.
include_cur_dir(p) ==
    /\ ~has_root(p)
    /\ p # << >>
    /\ p[1] = "."
    /\ (Len(p) = 1 \/ p[2] = "/")

\* Components::parse_single_component, over the pieces of the body: empty
\* pieces and `.` are no component, `..` is ParentDir, the rest Normal.
RECURSIVE parse_components(_)
parse_components(pieces) ==
    IF pieces = << >>
    THEN << >>
    ELSE LET piece == Head(pieces)
             rest == parse_components(Tail(pieces))
         IN  IF piece = << >> \/ piece = << "." >>
             THEN rest
             ELSE IF piece = << ".", "." >>
                  THEN << [ kind |-> "ParentDir", name |-> piece ] >> \o rest
                  ELSE << [ kind |-> "Normal", name |-> piece ] >> \o rest

\* Path::components.
components(p) ==
    (IF has_root(p)
     THEN << [ kind |-> "RootDir", name |-> << "/" >> ] >>
     ELSE IF include_cur_dir(p)
          THEN << [ kind |-> "CurDir", name |-> << "." >> ] >>
          ELSE << >>)
    \o parse_components(split_sep(p))

\* A push that puts a separator in front of every relative component, even
\* on an empty buffer.
push_always_sep(buf, c) == IF has_root(c) THEN c ELSE buf \o << "/" >> \o c

\* PathBuf::push(c): an absolute c replaces the buffer; otherwise c is
\* appended, after a separator when the buffer does not end in one.
push(buf, c) ==
    IF has_root(c)
    THEN c
    ELSE IF buf # << >> /\ buf[Len(buf)] # "/"
         THEN buf \o << "/" >> \o c
         ELSE buf \o c

\* Components::trim_right, as Path::parent uses it: trailing separators and
\* `.` pieces are cut off, down to the root.
RECURSIVE trim_right(_)
trim_right(s) ==
    IF s = << >> \/ s = << "/" >>
    THEN s
    ELSE IF s[Len(s)] = "/"
         THEN trim_right(SubSeq(s, 1, Len(s) - 1))
         ELSE IF s[Len(s)] = "." /\ Len(s) >= 2 /\ s[Len(s) - 1] = "/"
              THEN trim_right(SubSeq(s, 1, Len(s) - 1))
              ELSE s

\* The length of the last piece of s (s does not end in a separator).
RECURSIVE last_piece_len(_)
last_piece_len(s) ==
    IF s = << >> \/ s[Len(s)] = "/"
    THEN 0
    ELSE 1 + last_piece_len(SubSeq(s, 1, Len(s) - 1))

\* Path::parent: None for a path without components or ending in the root,
\* else the path up to its last component.
parent(p) ==
    LET comps == components(p)
        body == trim_right(p)
    IN  IF comps = << >> \/ comps[Len(comps)].kind = "RootDir"
        THEN None
        ELSE Some(trim_right(SubSeq(body, 1, Len(body) - last_piece_len(body))))

\* A pop that leaves the buffer as it is.
pop_keeps_last(buf) == buf

\* PathBuf::pop: truncates to the parent, does nothing when there is none.
pop(buf) == IF is_some(parent(buf)) THEN unwrap(parent(buf)) ELSE buf

\* PathExt::normalize, the loop over the components from a given buffer.
RECURSIVE normalize_from(_, _)
normalize_from(ret, comps) ==
    IF comps = << >>
    THEN ret
    ELSE LET component == Head(comps)
         IN  normalize_from(
                 CASE component.kind = "RootDir" -> push(ret, component.name)
                   [] component.kind = "CurDir" -> ret
                   [] component.kind = "ParentDir" -> pop(ret)
                   [] component.kind = "Normal" -> push(ret, component.name),
                 Tail(comps))

\* PathExt::normalize.
normalize(p) == normalize_from(<< >>, components(p))

\* A call of normalize: on the path first, then on the latest result.
normalize_call ==
    /\ Len(normalized) < MaxCalls
    /\ normalized' = Append(normalized,
                            normalize(IF normalized = << >>
                                      THEN path
                                      ELSE normalized[Len(normalized)]))
    /\ UNCHANGED << path, logvars, shvars, iovars, procvars, syncvars >>

InitPath == LoggerInit /\ ShIdle /\ IoIdle /\ path \in PathsUpTo(MaxPathLen) /\ normalized = << >>

NextPath == normalize_call

SpecPath == InitPath /\ [][NextPath]_vars

\* --------------------------------------------------------------- broc.rs
\* An argument and a command line are sequences of characters; "<FF>" stands
\* for a byte that is not valid UTF-8.

ArgChars == { "'", " ", "\\" }

\* The strings over chars of at most n characters.
RECURSIVE StringsUpTo(_, _)
StringsUpTo(chars, n) ==
    IF n = 0
    THEN { << >> }
    ELSE LET shorter == StringsUpTo(chars, n - 1)
         IN  shorter \cup { Append(q, c) : q \in { r \in shorter : Len(r) = n - 1 }, c \in chars }

\* OsStr::to_str succeeds.
is_utf8(os) == \A i \in 1 .. Len(os) : os[i] # "<FF>"

\* A replacement that escapes a quote with a backslash inside the quotes.
RECURSIVE replace_quote_backslash(_)
replace_quote_backslash(s) ==
    IF s = << >>
    THEN << >>
    ELSE (IF Head(s) = "'" THEN << "\\", "'" >> ELSE << Head(s) >>)
         \o replace_quote_backslash(Tail(s))

\* s.replace('\'', "'\\''")
RECURSIVE replace_quote(_)
replace_quote(s) ==
    IF s = << >>
    THEN << >>
    ELSE (IF Head(s) = "'" THEN << "'", "\\", "'", "'" >> ELSE << Head(s) >>)
         \o replace_quote(Tail(s))

\* format_sh_command, the loop from a given cmd and first flag.
RECURSIVE format_sh_from(_, _, _)
format_sh_from(out, first, args) ==
    IF args = << >>
    THEN out
    ELSE LET sep == IF first THEN out ELSE out \o << " " >>
             os == Head(args)
         IN  format_sh_from(
                 IF is_utf8(os)
                 THEN sep \o << "'" >> \o replace_quote(os) \o << "'" >>
                 ELSE sep \o os,
                 FALSE, Tail(args))

\* format_sh_command.
format_sh_command(args) == format_sh_from(<< >>, TRUE, args)

\* A call of format_sh_command on the arguments.
format_sh_command_call ==
    /\ cmd = None
    /\ cmd' = Some(format_sh_command(inputs))
    /\ UNCHANGED << inputs, words, logvars, pathvars, iovars, procvars, syncvars >>

\* ----------------------------------------------------------------- bo.rs

\* ebog!(..): Bogger::bog at level ERROR with an empty tag, as it acts on
\* the global logger g.
ebog(g, msg) == IF is_some(g) THEN bog(unwrap(g), "ERROR", "", msg) ELSE << >>

\* Path::file_name: Some(the last component) when it is a Normal one.
file_name(p) ==
    LET comps == components(p)
    IN  IF comps # << >> /\ comps[Len(comps)].kind = "Normal"
        THEN Some(comps[Len(comps)].name)
        ELSE None

\* The index of the last `.` of a name, 0 when it has none.
RECURSIVE last_dot(_)
last_dot(name) ==
    IF name = << >>
    THEN 0
    ELSE IF name[Len(name)] = "." THEN Len(name) ELSE last_dot(SubSeq(name, 1, Len(name) - 1))

\* rsplit_file_at_dot and Path::file_stem, on a file name: the part before
\* the last `.`, or the whole name when there is no `.` or nothing before it.
file_stem(name) ==
    IF name = << ".", "." >> \/ last_dot(name) <= 1
    THEN name
    ELSE SubSeq(name, 1, last_dot(name) - 1)

\* A with_extension that appends the extension to the whole file name.
with_extension_appended(p, ext) ==
    IF ~is_some(file_name(p)) THEN p ELSE trim_right(p) \o << "." >> \o ext

\* Path::with_extension(ext) as PathBuf::set_extension does it: without a
\* file name the path is left as it is; otherwise the buffer is cut right
\* after the file stem and `.` and ext are appended.
with_extension(p, ext) ==
    IF ~is_some(file_name(p))
    THEN p
    ELSE LET name == unwrap(file_name(p))
             body == trim_right(p)
             end_file_stem == Len(body) - Len(name) + Len(file_stem(name))
         IN  SubSeq(body, 1, end_file_stem) \o << "." >> \o ext

toml == << "t", "o", "m", "l" >>

\* The file a path names: its components, with the `.` ones resolved.
resolve(p) ==
    LET comps == components(p)
    IN  IF comps # << >> /\ comps[1].kind = "CurDir" THEN Tail(comps) ELSE comps

\* The values saved and loaded.
Values == { "v1", "v2" }

\* A string_maker: the text of a value, or an error.
string_maker(input, ok) ==
    IF ok THEN [ ok |-> TRUE, val |-> "text of " \o input ] ELSE [ ok |-> FALSE, val |-> "cannot serialize" ]

\* A str_loader: with inverts, the inverse of string_maker; otherwise one
\* that rejects every text.
str_loader(contents, inverts) ==
    IF inverts /\ \E v \in Values : contents = "text of " \o v
    THEN [ ok |-> TRUE, val |-> CHOOSE v \in Values : contents = "text of " \o v ]
    ELSE [ ok |-> FALSE, val |-> "cannot parse" ]

\* fs::write(path, content): fails on a path that names no file (empty, or
\* a directory) and whenever the system refuses (sys_ok false).
fs_write(fs, p, content, sys_ok) ==
    IF is_some(file_name(p)) /\ sys_ok
    THEN [ ok |-> TRUE,
           fs |-> [ k \in DOMAIN fs \cup { resolve(p) } |->
                      IF k = resolve(p) THEN content ELSE fs[k] ] ]
    ELSE [ ok |-> FALSE, fs |-> fs ]

\* fs::File::open then read_to_string: the content of an existing file.
fs_read(fs, p) ==
    IF is_some(file_name(p)) /\ resolve(p) \in DOMAIN fs
    THEN [ ok |-> TRUE, val |-> fs[resolve(p)] ]
    ELSE [ ok |-> FALSE, val |-> "cannot read" ]

\* dump_type(path, input, string_maker): what it returns, the file system it
\* leaves and what it logs.
dump_type(g, fs, p, input, maker_ok, sys_ok) ==
    LET target == with_extension(p, toml)
        content == string_maker(input, maker_ok)
        wrote == fs_write(fs, target, content.val, sys_ok)
    IN  IF ~content.ok
        THEN [ ret |-> FALSE, fs |-> fs, log |-> ebog(g, "Failed to save: " \o content.val) ]
        ELSE IF wrote.ok
             THEN [ ret |-> TRUE, fs |-> wrote.fs, log |-> << >> ]
             ELSE [ ret |-> FALSE, fs |-> fs, log |-> ebog(g, "Failed to save: cannot write") ]

\* load_type(path, str_loader): what it returns and what it logs.
load_type(g, fs, p, inverts) ==
    LET target == with_extension(p, toml)
        contents == fs_read(fs, target)
        parsed == str_loader(contents.val, inverts)
    IN  IF ~contents.ok
        THEN [ ret |-> None, log |-> ebog(g, "Failed to load: " \o contents.val) ]
        ELSE IF parsed.ok
             THEN [ ret |-> Some(parsed.val), log |-> << >> ]
             ELSE [ ret |-> None, log |-> ebog(g, "Failed to load: " \o parsed.val) ]

\* A call of dump_type.
dump_type_call(p, input, maker_ok, sys_ok) ==
    LET r == dump_type(GLOBAL_BOGGER, files, p, input, maker_ok, sys_ok)
    IN  /\ dumped = None
        /\ loaded = None
        /\ files' = r.fs
        /\ dumped' = Some([ path |-> p, input |-> input, ret |-> r.ret ])
        /\ written' = r.log
        /\ outcome' = Some([ fn |-> "dump_type", failed |-> ~r.ret,
                             ret |-> IF r.ret THEN "true" ELSE "false", elsewhere |-> << >>,
                             arg |-> p, val |-> << >> ])
        /\ last' = "dump_type"
        /\ UNCHANGED << GLOBAL_BOGGER, stack, verbosity, loaded, pathvars, shvars, procvars, syncvars >>

\* A call of load_type.
load_type_call(p, inverts) ==
    LET r == load_type(GLOBAL_BOGGER, files, p, inverts)
    IN  /\ loaded = None
        /\ loaded' = Some([ path |-> p, inverts |-> inverts, ret |-> r.ret ])
        /\ written' = r.log
        /\ outcome' = Some([ fn |-> "load_type", failed |-> ~is_some(r.ret),
                             ret |-> IF is_some(r.ret) THEN "Some" ELSE "None", elsewhere |-> << >>,
                             arg |-> p, val |-> << >> ])
        /\ last' = "load_type"
        /\ UNCHANGED << GLOBAL_BOGGER, stack, verbosity, files, dumped, pathvars, shvars, procvars, syncvars >>

\* The file system at the start: empty, or holding an older save of v1.
StartFiles ==
    { NoFiles,
      [ k \in { resolve(<< "a", ".", "t", "o", "m", "l" >>) } |-> "text of v1" ] }

InitIo ==
    /\ LoggerInit
    /\ PathIdle
    /\ ShIdle
    /\ files \in StartFiles
    /\ dumped = None
    /\ loaded = None
    /\ outcome = None
    /\ ProcIdle

NextIo ==
    \/ \E p \in PathsUpTo(MaxIoPathLen), input \in Values, maker_ok \in BOOLEAN, sys_ok \in BOOLEAN :
          dump_type_call(p, input, maker_ok, sys_ok)
    \/ \E p \in PathsUpTo(MaxIoPathLen), inverts \in BOOLEAN : load_type_call(p, inverts)

SpecIo == InitIo /\ [][NextIo]_vars

\* ------------------------------------------------ the fallible functions

\* The free function bog as it acts on the global logger g: nothing
\* happens while the logger is not initialised.
global_bog(g, level, tag, msg) ==
    IF is_some(g) THEN bog(unwrap(g), level, tag, msg) ELSE << >>

\* How a call ended: whether something failed in it, what it handed back
\* to its caller ("exit(1)" when it ended the process instead), what it
\* wrote through the global logger, and what it reported elsewhere (the log
\* crate's macros, eprintln).
Ended(failed, ret, log, elsewhere) ==
    [ failed |-> failed, ret |-> ret, log |-> log, elsewhere |-> elsewhere ]

\* ResultExt::prefix_err and ResultExt::cast_err: Ok stays Ok and Err stays
\* Err, with the error converted.
prefix_err(ok) == Ended(~ok, IF ok THEN "Ok" ELSE "Err", << >>, << >>)

cast_err(ok) == Ended(~ok, IF ok THEN "Ok" ELSE "Err", << >>, << >>)

\* BogOkExt::or_bog_tagged on a Result (or_err, or_warn, or_bog and the
\* tagged variants all end here).
BogOkExt_or_bog_tagged(g, ok, level, tag) ==
    IF ok
    THEN Ended(FALSE, "Some", << >>, << >>)
    ELSE Ended(TRUE, "None", global_bog(g, level, tag, "e"), << >>)

\* An unwrap that logs the failure and hands None back instead of exiting.
or_bog_tagged_returns(g, some, level, tag, msg) ==
    IF some
    THEN Ended(FALSE, "val", << >>, << >>)
    ELSE Ended(TRUE, "None", global_bog(g, level, tag, msg), << >>)

\* BogUnwrapExt::or_bog_tagged on an Option (or_bog, or_err and
\* or_err_tagged all end here).
BogUnwrapExt_or_bog_tagged(g, some, level, tag, msg) ==
    IF some
    THEN Ended(FALSE, "val", << >>, << >>)
    ELSE Ended(TRUE, "exit(1)", global_bog(g, level, tag, msg), << >>)

\* BogUnwrapExt::or_exit.
or_exit(some) ==
    IF some
    THEN Ended(FALSE, "val", << >>, << >>)
    ELSE Ended(TRUE, "exit(1)", << >>, << >>)

\* bath::basename: the file name, or the process ends.
basename(g, p) ==
    LET r == BogUnwrapExt_or_bog_tagged(g, is_some(file_name(p)), "ERROR", "",
                                        "Failed to determine filename of <path>")
    IN  [ failed |-> r.failed, ret |-> IF r.failed THEN r.ret ELSE "name", log |-> r.log,
          elsewhere |-> r.elsewhere, arg |-> p,
          val |-> IF r.failed THEN << >> ELSE unwrap(file_name(p)) ]

\* bo::write_str: create_dir_all of the parent when there is one, then
\* fs::write; either error goes back to the caller with `?`.
write_str(p, mkdir_ok, write_ok) ==
    IF is_some(parent(p)) /\ ~mkdir_ok
    THEN Ended(TRUE, "Err", << >>, << >>)
    ELSE IF ~write_ok
         THEN Ended(TRUE, "Err", << >>, << >>)
         ELSE Ended(FALSE, "Ok", << >>, << >>)

\* bo::map_chunks from chunk i on. An item of iter is "valid", "invalid"
\* (bytes that are not UTF-8) or "unread" (an io error); f fails on the
\* chunks whose index is in f_errs. calls lists the chunks given to f.
RECURSIVE map_chunks_from(_, _, _, _, _, _)
map_chunks_from(INVALID_FAIL, iter, f_errs, i, calls, elsewhere) ==
    IF i >= Len(iter)
    THEN [ ret |-> "Ok", at |-> i, calls |-> calls, elsewhere |-> elsewhere ]
    ELSE IF i = U32_MAX
    THEN [ ret |-> "Err(ChunkError)", at |-> i, calls |-> calls,
           elsewhere |-> Append(elsewhere, "log::warn") ]
    ELSE IF iter[i + 1] = "unread"
    THEN [ ret |-> "Err(ChunkError)", at |-> i, calls |-> calls,
           elsewhere |-> Append(elsewhere, "log::error") ]
    ELSE IF iter[i + 1] = "valid"
    THEN IF i \in f_errs
         THEN [ ret |-> "Err(Custom)", at |-> i, calls |-> Append(calls, i),
                elsewhere |-> elsewhere ]
         ELSE map_chunks_from(INVALID_FAIL, iter, f_errs, i + 1, Append(calls, i), elsewhere)
    ELSE IF INVALID_FAIL
         THEN [ ret |-> "Err(ChunkError)", at |-> i, calls |-> calls,
                elsewhere |-> Append(elsewhere, "log::error") ]
         ELSE map_chunks_from(INVALID_FAIL, iter, f_errs, i + 1, calls,
                              Append(elsewhere, "log::error"))

\* map_chunks with the policy flag ignored: an invalid chunk always fails.
map_chunks_always_fails(INVALID_FAIL, iter, f_errs) ==
    map_chunks_from(TRUE, iter, f_errs, 0, << >>, << >>)

map_chunks(INVALID_FAIL, iter, f_errs) ==
    map_chunks_from(INVALID_FAIL, iter, f_errs, 0, << >>, << >>)

\* bo::map_reader_lines from line i on. An item of lines is "line" or
\* "unread" (an io error, invalid UTF-8 included).
RECURSIVE map_reader_lines_from(_, _, _, _, _, _)
map_reader_lines_from(INVALID_FAIL, lines, f_errs, i, calls, elsewhere) ==
    IF i >= Len(lines)
    THEN [ ret |-> "Ok", at |-> i, calls |-> calls, elsewhere |-> elsewhere ]
    ELSE IF i = U32_MAX
    THEN [ ret |-> "Err(ChunkError)", at |-> i, calls |-> calls,
           elsewhere |-> Append(elsewhere, "eprintln") ]
    ELSE IF lines[i + 1] = "line"
    THEN IF i \in f_errs
         THEN [ ret |-> "Err(Custom)", at |-> i, calls |-> Append(calls, i),
                elsewhere |-> elsewhere ]
         ELSE map_reader_lines_from(INVALID_FAIL, lines, f_errs, i + 1, Append(calls, i), elsewhere)
    ELSE IF INVALID_FAIL
         THEN [ ret |-> "Err(ChunkError)", at |-> i, calls |-> calls,
                elsewhere |-> Append(elsewhere, "eprintln") ]
         ELSE map_reader_lines_from(INVALID_FAIL, lines, f_errs, i + 1, calls,
                                    Append(elsewhere, "eprintln"))

\* map_reader_lines with the callback's result dropped.
map_reader_lines_ignores_f(INVALID_FAIL, lines, f_errs) ==
    map_reader_lines_from(INVALID_FAIL, lines, { }, 0, << >>, << >>)

map_reader_lines(INVALID_FAIL, lines, f_errs) ==
    map_reader_lines_from(INVALID_FAIL, lines, f_errs, 0, << >>, << >>)

\* How a map_chunks or map_reader_lines call ended.
MapEnded(r) ==
    Ended(r.ret # "Ok" \/ r.elsewhere # << >>,
          IF r.ret = "Ok" THEN "Ok" ELSE "Err", << >>, r.elsewhere)

\* A map_chunks or map_reader_lines call with what it was given and what it
\* handed back: the result, the index in ChunkError or where the call stopped,
\* and the items the callback was invoked on, in the order of the invocations.
MapCall(INVALID_FAIL, items, f_errs, r) ==
    [ failed    |-> MapEnded(r).failed,
      ret       |-> MapEnded(r).ret,
      log       |-> MapEnded(r).log,
      elsewhere |-> MapEnded(r).elsewhere,
      arg       |-> << INVALID_FAIL, items, f_errs >>,
      val       |-> << r.ret, r.at, r.calls >> ]

\* A value of an environment variable that is not valid Unicode.
NotUnicode == "<FF>"

\* env::var("SHELL"): Some(value) when the variable is set to valid Unicode.
env_var(env) == IF is_some(env) /\ unwrap(env) # NotUnicode THEN env ELSE None

\* The closure of the SHELL static (unix): the shell and its flag, read
\* from the environment env.
SHELL_init(env) ==
    << IF is_some(env_var(env)) THEN unwrap(env_var(env)) ELSE "/bin/sh", "-c" >>

\* A dereference that runs the closure again on every use.
LazyLock_rereads(cell, env) == SHELL_init(env)

\* LazyLock::force: the stored value, computed by the closure on first use.
LazyLock_force(cell, env) == IF is_some(cell) THEN unwrap(cell) ELSE SHELL_init(env)

\* Command::new(shell).arg(arg).arg(script).
Command(shell, script) == << shell[1], shell[2], script >>

\* broc::spawn_script: Command::spawn, its error prefixed and sent to
\* or_err.
spawn_script(g, spawn_ok) ==
    LET r == BogOkExt_or_bog_tagged(g, prefix_err(spawn_ok).ret = "Ok", "ERROR", "")
    IN  r

\* broc::exec_script (not windows): exec only returns when it failed.
exec_script(g, exec_ok) ==
    IF exec_ok
    THEN Ended(FALSE, "replaced", << >>, << >>)
    ELSE Ended(TRUE, "exit(1)", ebog(g, "Could not exec <script>: <err>"), << >>)

\* broc::spawn_detached (unix).
spawn_detached(g, spawn_ok) ==
    BogOkExt_or_bog_tagged(g, prefix_err(spawn_ok).ret = "Ok", "ERROR", "")

\* broc::spawn_piped: the spawn error goes back with `?`, a missing stdout
\* as Err(err_prefix).
spawn_piped(spawn_ok, has_stdout) ==
    IF prefix_err(spawn_ok).ret = "Err"
    THEN Ended(TRUE, "Err", << >>, << >>)
    ELSE IF has_stdout
         THEN Ended(FALSE, "Ok", << >>, << >>)
         ELSE Ended(TRUE, "Err", << >>, << >>)

\* A get_or_err! that returns the default without reporting the error.
get_or_err_unreported(g, prefix) == Ended(TRUE, "false", << >>, << >>)

\* get_or_err!(expr, prefix): the error is sent to ebog and the function
\* returns Default::default(), here false.
get_or_err(g, prefix) == Ended(TRUE, "false", ebog(g, prefix \o ": <e>"), << >>)

\* bs::is_executable (unix).
is_executable(g, metadata_ok, mode_x) ==
    IF ~metadata_ok
    THEN get_or_err(g, "Failed to check executability of <path>")
    ELSE Ended(FALSE, IF mode_x THEN "true" ELSE "false", << >>, << >>)

\* bs::set_executable (unix).
set_executable(g, metadata_ok, set_permissions_ok) ==
    IF ~metadata_ok
    THEN get_or_err(g, "Failed set executability of <path>")
    ELSE IF ~set_permissions_ok
         THEN get_or_err(g, "Failed set executability of <path>")
         ELSE Ended(FALSE, "true", << >>, << >>)

\* bs::is_symlink.
is_symlink(g, metadata_ok, is_link) ==
    IF ~metadata_ok
    THEN get_or_err(g, "Failed to check metadata of <path>")
    ELSE Ended(FALSE, IF is_link THEN "true" ELSE "false", << >>, << >>)

\* bs::symlink (unix): prefix_err, or_err, is_some.
symlink(g, symlink_ok) ==
    LET r == BogOkExt_or_bog_tagged(g, prefix_err(symlink_ok).ret = "Ok", "ERROR", "")
    IN  [ r EXCEPT !.ret = IF r.ret = "Some" THEN "true" ELSE "false" ]

\* bs::create_dir.
create_dir(g, dir, exists, create_ok) ==
    IF dir = << >>
    THEN Ended(TRUE, "false", ebog(g, "Failed to determine directory"), << >>)
    ELSE IF ~exists
         THEN IF create_ok
              THEN Ended(FALSE, "true", global_bog(g, "INFO", "", "Created directory: <dir>"), << >>)
              ELSE Ended(TRUE, "false", ebog(g, "Failed to create <dir>: <e>"), << >>)
         ELSE Ended(FALSE, "true", << >>, << >>)

\* bs::clear_directory, the loop over the entries: an entry is "unread"
\* (the iterator gave an error), "kept" (the filter rejects it), "removed"
\* or "stuck" (remove_dir or remove_file failed).
RECURSIVE clear_entries(_, _)
clear_entries(g, entries) ==
    IF entries = << >>
    THEN Ended(FALSE, "true", << >>, << >>)
    ELSE IF Head(entries) \in { "unread", "stuck" }
         THEN get_or_err(g, "Failed to clear directory at <path>")
         ELSE clear_entries(g, Tail(entries))

\* bs::clear_directory.
clear_directory(g, exists, read_dir_ok, entries) ==
    IF ~exists
    THEN Ended(FALSE, "true", << >>, << >>)
    ELSE IF ~read_dir_ok
         THEN get_or_err(g, "Failed to clear directory at <path>")
         ELSE clear_entries(g, entries)

\* FsPathExt::is_empty_dir: a read_dir error becomes false.
is_empty_dir(read_dir_ok, empty) ==
    IF read_dir_ok
    THEN Ended(FALSE, IF empty THEN "true" ELSE "false", << >>, << >>)
    ELSE Ended(TRUE, "false", << >>, << >>)

\* The process runs until a call ends it or replaces it.
Running ==
    IF is_some(outcome) THEN unwrap(outcome).ret \notin { "exit(1)", "replaced" } ELSE TRUE

\* A call of the function fn that ended as r; arg is the path it was given
\* and val the value handed back, where the model follows them.
CallCore(fn, r) ==
    /\ outcome' = Some([ fn |-> fn, failed |-> r.failed, ret |-> r.ret,
                         elsewhere |-> r.elsewhere,
                         arg |-> IF "arg" \in DOMAIN r THEN r.arg ELSE << >>,
                         val |-> IF "val" \in DOMAIN r THEN r.val ELSE << >> ])
    /\ written' = r.log
    /\ last' = fn
    /\ UNCHANGED << GLOBAL_BOGGER, stack, verbosity, files, dumped, loaded, pathvars, shvars, syncvars >>

\* A call of a function that does not look at the shell.
Call(fn, r) == CallCore(fn, r) /\ UNCHANGED procvars

\* A call of a function that runs the script with the shell: the SHELL
\* static is initialised if it was not, and the command is what
\* Command::new(shell).arg(arg).arg(script) holds.
ShellCall(fn, script, r) ==
    /\ CallCore(fn, [ failed |-> r.failed, ret |-> r.ret, log |-> r.log,
                      elsewhere |-> r.elsewhere, arg |-> script,
                      val |-> Command(LazyLock_force(SHELL, environ), script) ])
    /\ SHELL' = Some(LazyLock_force(SHELL, environ))
    /\ UNCHANGED environ

prefix_err_call(ok) == Call("prefix_err", prefix_err(ok))

cast_err_call(ok) == Call("cast_err", cast_err(ok))

BogOkExt_call(ok, level, tag) ==
    Call("BogOkExt::or_bog_tagged", BogOkExt_or_bog_tagged(GLOBAL_BOGGER, ok, level, tag))

BogUnwrapExt_call(some, level, tag, msg) ==
    Call("BogUnwrapExt::or_bog_tagged",
         BogUnwrapExt_or_bog_tagged(GLOBAL_BOGGER, some, level, tag, msg))

or_exit_call(some) == Call("or_exit", or_exit(some))

basename_call(p) == Call("basename", basename(GLOBAL_BOGGER, p))

write_str_call(p, mkdir_ok, write_ok) == Call("write_str", write_str(p, mkdir_ok, write_ok))

map_chunks_call(INVALID_FAIL, iter, f_errs) ==
    Call("map_chunks", MapCall(INVALID_FAIL, iter, f_errs, map_chunks(INVALID_FAIL, iter, f_errs)))

map_reader_lines_call(INVALID_FAIL, lines, f_errs) ==
    Call("map_reader_lines",
         MapCall(INVALID_FAIL, lines, f_errs, map_reader_lines(INVALID_FAIL, lines, f_errs)))

spawn_script_call(script, spawn_ok) ==
    ShellCall("spawn_script", script, spawn_script(GLOBAL_BOGGER, spawn_ok))

exec_script_call(script, exec_ok) ==
    ShellCall("exec_script", script, exec_script(GLOBAL_BOGGER, exec_ok))

spawn_detached_call(spawn_ok) == Call("spawn_detached", spawn_detached(GLOBAL_BOGGER, spawn_ok))

spawn_piped_call(spawn_ok, has_stdout) == Call("spawn_piped", spawn_piped(spawn_ok, has_stdout))

is_executable_call(metadata_ok, mode_x) ==
    Call("is_executable", is_executable(GLOBAL_BOGGER, metadata_ok, mode_x))

set_executable_call(metadata_ok, set_permissions_ok) ==
    Call("set_executable", set_executable(GLOBAL_BOGGER, metadata_ok, set_permissions_ok))

is_symlink_call(metadata_ok, is_link) ==
    Call("is_symlink", is_symlink(GLOBAL_BOGGER, metadata_ok, is_link))

symlink_call(symlink_ok) == Call("symlink", symlink(GLOBAL_BOGGER, symlink_ok))

create_dir_call(dir, exists, create_ok) ==
    Call("create_dir", create_dir(GLOBAL_BOGGER, dir, exists, create_ok))

clear_directory_call(exists, read_dir_ok, entries) ==
    Call("clear_directory", clear_directory(GLOBAL_BOGGER, exists, read_dir_ok, entries))

is_empty_dir_call(read_dir_ok, empty) == Call("is_empty_dir", is_empty_dir(read_dir_ok, empty))

\* The inputs of the calls.
Chunks == StringsUpTo({ "valid", "invalid", "unread" }, MaxChunks)

Lines == StringsUpTo({ "line", "unread" }, MaxChunks)

Entries == StringsUpTo({ "unread", "kept", "removed", "stuck" }, MaxEntries)

ErrPaths == { << >>, << "a" >>, << ".", "." >> }

ErrLevels == { "ERROR", "WARN" }

\* The inputs the readers are given among the other fallible functions: one
\* for each way a chunk or line can end the call, and one that runs into the
\* segment limit.
ErrChunks ==
    { << >>, << "valid" >>, << "invalid" >>, << "unread" >>, << "valid", "valid", "valid" >> }

ErrLines == { << >>, << "line" >>, << "unread" >>, << "line", "line", "line" >> }

ErrFErrs == { { }, { 0 } }

InitErr == LoggerInit /\ PathIdle /\ ShIdle /\ IoIdle

NextErr ==
    /\ Running
    /\ \/ /\ UNCHANGED libvars
          /\ \/ init_bogger(TRUE, TRUE)
             \/ Bogger_filter_below("NOTE")
       \/ \E ok \in BOOLEAN : prefix_err_call(ok)
       \/ \E ok \in BOOLEAN : cast_err_call(ok)
       \/ \E ok \in BOOLEAN, level \in ErrLevels, tag \in { "", "t" } : BogOkExt_call(ok, level, tag)
       \/ \E some \in BOOLEAN, level \in ErrLevels, tag \in { "", "t" } :
             BogUnwrapExt_call(some, level, tag, "m")
       \/ \E some \in BOOLEAN : or_exit_call(some)
       \/ \E p \in ErrPaths : basename_call(p)
       \/ \E p \in ErrPaths, mkdir_ok \in BOOLEAN, write_ok \in BOOLEAN :
             write_str_call(p, mkdir_ok, write_ok)
       \/ \E fail \in BOOLEAN, iter \in ErrChunks, f_errs \in ErrFErrs :
             map_chunks_call(fail, iter, f_errs)
       \/ \E fail \in BOOLEAN, lines \in ErrLines, f_errs \in ErrFErrs :
             map_reader_lines_call(fail, lines, f_errs)
       \/ \E spawn_ok \in BOOLEAN : spawn_script_call("s", spawn_ok)
       \/ \E exec_ok \in BOOLEAN : exec_script_call("s", exec_ok)
       \/ \E spawn_ok \in BOOLEAN : spawn_detached_call(spawn_ok)
       \/ \E spawn_ok \in BOOLEAN, has_stdout \in BOOLEAN : spawn_piped_call(spawn_ok, has_stdout)
       \/ \E metadata_ok \in BOOLEAN, mode_x \in BOOLEAN : is_executable_call(metadata_ok, mode_x)
       \/ \E metadata_ok \in BOOLEAN, set_ok \in BOOLEAN : set_executable_call(metadata_ok, set_ok)
       \/ \E metadata_ok \in BOOLEAN, is_link \in BOOLEAN : is_symlink_call(metadata_ok, is_link)
       \/ \E symlink_ok \in BOOLEAN : symlink_call(symlink_ok)
       \/ \E dir \in ErrPaths, exists \in BOOLEAN, create_ok \in BOOLEAN :
             create_dir_call(dir, exists, create_ok)
       \/ \E exists \in BOOLEAN, read_dir_ok \in BOOLEAN, entries \in Entries :
             clear_directory_call(exists, read_dir_ok, entries)
       \/ \E read_dir_ok \in BOOLEAN, empty \in BOOLEAN : is_empty_dir_call(read_dir_ok, empty)
       \/ \E maker_ok \in BOOLEAN, sys_ok \in BOOLEAN :
             dump_type_call(<< "a" >>, "v1", maker_ok, sys_ok)
       \/ \E inverts \in BOOLEAN : load_type_call(<< "a" >>, inverts)

SpecErr == InitErr /\ [][NextErr]_vars

\* The callbacks of the readers: the sets of indices f fails on.
FErrSets == SUBSET (0 .. MaxChunks - 1)

\* The readers on every input, with callbacks failing anywhere, under both
\* settings of the policy flag. The readers keep nothing between calls, so a
\* behaviour is one call.
NextMap ==
    /\ outcome = None
    /\ \/ \E INVALID_FAIL \in BOOLEAN, iter \in Chunks, f_errs \in FErrSets :
              map_chunks_call(INVALID_FAIL, iter, f_errs)
       \/ \E INVALID_FAIL \in BOOLEAN, lines \in Lines, f_errs \in FErrSets :
              map_reader_lines_call(INVALID_FAIL, lines, f_errs)

SpecMap == InitErr /\ [][NextMap]_vars

\* basename under every state of the logger's bounds.
NextName ==
    /\ Running
    /\ \/ /\ UNCHANGED libvars
          /\ \/ init_bogger(TRUE, TRUE)
             \/ Bogger_filter_below("NOTE")
             \/ Bogger_downcast_above("WARN")
             \/ Bogger_pause
             \/ Bogger_resume
       \/ \E p \in PathsUpTo(MaxIoPathLen) : basename_call(p)

SpecName == InitErr /\ [][NextName]_vars

\* The process changing its environment: env::set_var and env::remove_var.
set_var(value) ==
    /\ environ' = Some(value)
    /\ written' = << >>
    /\ last' = "set_var"
    /\ UNCHANGED << GLOBAL_BOGGER, stack, verbosity, SHELL, pathvars, shvars, iovars, syncvars >>

remove_var ==
    /\ environ' = None
    /\ written' = << >>
    /\ last' = "remove_var"
    /\ UNCHANGED << GLOBAL_BOGGER, stack, verbosity, SHELL, pathvars, shvars, iovars, syncvars >>

\* A dereference of the public SHELL static by the program itself.
SHELL_deref ==
    /\ SHELL' = Some(LazyLock_force(SHELL, environ))
    /\ written' = << >>
    /\ last' = "SHELL"
    /\ UNCHANGED << GLOBAL_BOGGER, stack, verbosity, environ, pathvars, shvars, iovars, syncvars >>

\* The values SHELL is set to.
ShellValues == { "/bin/zsh", "/usr/bin/fish", NotUnicode }

Scripts == { "s", "t" }

\* The process starts with any environment.
InitShell ==
    /\ LoggerInit
    /\ PathIdle
    /\ ShIdle
    /\ files = NoFiles /\ dumped = None /\ loaded = None /\ outcome = None
    /\ environ \in { None } \cup { Some(v) : v \in ShellValues }
    /\ SHELL = None

NextShell ==
    /\ Running
    /\ \/ \E v \in ShellValues : set_var(v)
       \/ remove_var
       \/ SHELL_deref
       \/ \E script \in Scripts, spawn_ok \in BOOLEAN : spawn_script_call(script, spawn_ok)
       \/ \E script \in Scripts, exec_ok \in BOOLEAN : exec_script_call(script, exec_ok)

SpecShell == InitShell /\ [][NextShell]_vars

\* ------------------------------------------------------------- claims

paused(b) == b.min_level[1] = U8_MAX

\* C1: when a Bogger::with call entered on an initialised logger returns,
\* prefix, suffix and tag override are what they were when it was entered,
\* whatever the closure did (nested scopes and messages included).
C1_ScopeRestoresStrings ==
    [][ (last' = "with_exit" /\ is_some(Head(stack).pre))
        => /\ is_some(GLOBAL_BOGGER')
           /\ unwrap(GLOBAL_BOGGER').prefix = unwrap(Head(stack).pre).prefix
           /\ unwrap(GLOBAL_BOGGER').suffix = unwrap(Head(stack).pre).suffix
           /\ unwrap(GLOBAL_BOGGER').tag_override = unwrap(Head(stack).pre).tag_override
      ]_vars

\* An inner scope has returned inside an outer scope that had set prefix,
\* suffix and tag, and these are in force again.
C1_Witness ==
    /\ last = "with_exit"
    /\ Len(stack) = 1
    /\ is_some(GLOBAL_BOGGER)
    /\ unwrap(GLOBAL_BOGGER).prefix = "a"
    /\ unwrap(GLOBAL_BOGGER).suffix = "a"
    /\ unwrap(GLOBAL_BOGGER).tag_override = Some("a")

\* C2: when a Bogger::with call entered on an initialised logger returns,
\* the bounds (threshold and ceiling, each as priority and level) are what
\* they were when it was entered.
C2_ScopeRestoresBounds ==
    [][ (last' = "with_exit" /\ is_some(Head(stack).pre))
        => /\ is_some(GLOBAL_BOGGER')
           /\ bounds(unwrap(GLOBAL_BOGGER')) = bounds(unwrap(Head(stack).pre))
      ]_vars

\* The minimum severity the documentation of init_filter gives for N.
DocumentedLevel(N) ==
    IF N = 0 THEN "ERROR"
    ELSE IF N = 1 THEN "WARN"
    ELSE IF N = 2 THEN "INFO"
    ELSE IF N = 3 THEN "DEBUG"
    ELSE IF N = 4 THEN "DNOTE"
    ELSE "ALL"

\* C3: on an initialised logger init_filter(N) sets the threshold to the
\* documented level of N with that level's priority, and changes nothing else
\* of the logger.
C3_InitFilterSetsDocumentedLevel ==
    [][ \A N \in Verbosities :
          (is_some(GLOBAL_BOGGER) /\ init_filter(N))
          => GLOBAL_BOGGER' =
                Some([ unwrap(GLOBAL_BOGGER) EXCEPT
                         !.min_level = << priority(DocumentedLevel(N)), DocumentedLevel(N) >> ])
      ]_vars

\* init_filter(4) was called inside a scope with prefix, suffix and tag set
\* and a ceiling other than the initial one.
C3_Witness ==
    /\ last = "init_filter"
    /\ verbosity = Some(4)
    /\ is_some(GLOBAL_BOGGER)
    /\ unwrap(GLOBAL_BOGGER).min_level = << 20, "DNOTE" >>
    /\ unwrap(GLOBAL_BOGGER).downcast_to = << 80, "WARN" >>
    /\ unwrap(GLOBAL_BOGGER).prefix = "p"
    /\ unwrap(GLOBAL_BOGGER).tag_override = Some("g")

\* C4: while the threshold is the one init_filter(0) set, a bog call of any
\* level other than ERROR writes nothing.
C4_VerbosityZeroShowsOnlyError ==
    [][ \A level \in BogLevel \ { "ERROR" }, tag \in Tags, msg \in Msgs :
          (verbosity = Some(0) /\ Bogger_bog(level, tag, msg)) => written' = << >>
      ]_vars

RECURSIVE LexicalScan(_, _)
LexicalScan(kept, comps) ==
    IF comps = << >>
    THEN kept
    ELSE LET c == Head(comps)
             k == IF c.kind = "CurDir"
                  THEN kept
                  ELSE IF c.kind = "ParentDir"
                       THEN IF kept # << >> /\ kept[Len(kept)].kind = "Normal"
                            THEN SubSeq(kept, 1, Len(kept) - 1)
                            ELSE kept
                       ELSE Append(kept, c)
         IN  LexicalScan(k, Tail(comps))

\* C6: normalize(normalize(p)) = normalize(p).
C6_NormalizeIdempotent ==
    Len(normalized) >= 2 => normalized[2] = normalized[1]

\* normalize was called twice on a path that climbs above the root.
C6_Witness ==
    /\ path = << "/", ".", ".", "/", "a" >>
    /\ Len(normalized) = 2
    /\ normalized[2] = << "/", "a" >>

\* C7: the result of normalize has no `.` or `..` component, and its
\* components are those the left-to-right scan of the input's components
\* keeps.
C7_NormalizeLexical ==
    Len(normalized) >= 1 =>
        /\ \A i \in 1 .. Len(components(normalized[1])) :
              components(normalized[1])[i].kind \in { "RootDir", "Normal" }
        /\ components(normalized[1]) = LexicalScan(<< >>, components(path))

\* normalize was called on a relative path whose `..` removes a kept
\* component.
C7_Witness ==
    /\ path = << "a", "/", ".", ".", "/", "a" >>
    /\ Len(normalized) >= 1
    /\ normalized[1] = << "a" >>

\* Word splitting of a command line by the POSIX shell quoting rules
\* (XCU 2.2): outside quotes a blank ends the word, a backslash makes the next
\* character literal and a single quote opens a quoted part; inside single
\* quotes every character is literal up to the closing quote. The result is
\* Some(words), or None when a quote or a backslash is left open. cur is
\* Some(the word begun) or None between words.
RECURSIVE PosixWords(_, _, _, _)
PosixWords(rest, quoted, cur, done) ==
    LET word == IF is_some(cur) THEN unwrap(cur) ELSE << >>
    IN  IF rest = << >>
        THEN IF quoted
             THEN None
             ELSE Some(IF is_some(cur) THEN Append(done, word) ELSE done)
        ELSE IF quoted
             THEN IF Head(rest) = "'"
                  THEN PosixWords(Tail(rest), FALSE, Some(word), done)
                  ELSE PosixWords(Tail(rest), TRUE, Some(Append(word, Head(rest))), done)
             ELSE IF Head(rest) = "'"
                  THEN PosixWords(Tail(rest), TRUE, Some(word), done)
                  ELSE IF Head(rest) = "\\"
                       THEN IF Len(rest) = 1
                            THEN None
                            ELSE PosixWords(Tail(Tail(rest)), FALSE,
                                            Some(Append(word, rest[2])), done)
                       ELSE IF Head(rest) = " "
                            THEN PosixWords(Tail(rest), FALSE, None,
                                            IF is_some(cur) THEN Append(done, word) ELSE done)
                            ELSE PosixWords(Tail(rest), FALSE,
                                            Some(Append(word, Head(rest))), done)

\* A shell splits the command line format_sh_command returned.
shell_split ==
    /\ cmd # None
    /\ words = None
    /\ words' = Some(PosixWords(unwrap(cmd), FALSE, None, << >>))
    /\ UNCHANGED << inputs, cmd, logvars, pathvars, iovars, procvars, syncvars >>

InitSh ==
    /\ LoggerInit
    /\ PathIdle
    /\ IoIdle
    /\ inputs \in StringsUpTo(StringsUpTo(ArgChars, MaxArgLen), MaxArgs)
    /\ cmd = None
    /\ words = None

NextSh == format_sh_command_call \/ shell_split

SpecSh == InitSh /\ [][NextSh]_vars

\* C8: a shell splits the output of format_sh_command on UTF-8 arguments
\* into exactly those arguments, in order.
C8_QuotingRoundTrips ==
    (is_some(words) /\ \A i \in 1 .. Len(inputs) : is_utf8(inputs[i]))
    => unwrap(words) = Some(inputs)

\* The command line of an empty argument and an argument holding a quote
\* and a blank was split.
C8_Witness ==
    /\ inputs = << << >>, << "'", " " >> >>
    /\ is_some(words)
    /\ unwrap(words) = Some(inputs)

\* The functions that hand an error value back to their caller.
TypedErrorFns ==
    { "write_str", "spawn_piped", "map_chunks", "map_reader_lines", "prefix_err", "cast_err" }

\* The functions that end a failure without reporting it anywhere.
SilentFns == { "is_empty_dir", "or_exit" }

\* What a function hands back after a failure when it hides the error.
DefaultValues == { "false", "None" }

\* The global logger is initialised and lets messages of level ERROR through.
ErrorsShown ==
    is_some(GLOBAL_BOGGER) /\ priority("ERROR") >= unwrap(GLOBAL_BOGGER).min_level[1]

NameWithToml(name) ==
    LET dots == { i \in 2 .. Len(name) : name[i] = "." }
        base == IF dots = { }
                THEN name
                ELSE SubSeq(name, 1, (CHOOSE i \in dots : \A j \in dots : j <= i) - 1)
    IN  base \o << ".", "t", "o", "m", "l" >>

\* The file that the path p with its extension replaced by toml names.
TomlFile(p) ==
    LET comps == resolve(p)
    IN  SubSeq(comps, 1, Len(comps) - 1)
        \o << [ kind |-> "Normal", name |-> NameWithToml(comps[Len(comps)].name) ] >>

NamesFile(p) == resolve(p) # << >> /\ resolve(p)[Len(resolve(p))].kind = "Normal"

\* q differs from p only in its extension.
DiffersOnlyInExtension(p, q) ==
    NamesFile(p) /\ NamesFile(q) /\ TomlFile(p) = TomlFile(q)

FinalComponent(p) == components(p)[Len(components(p))]

\* The path terminates in `..`.
EndsInParentDir(p) == components(p) # << >> /\ FinalComponent(p).kind = "ParentDir"

\* C11 as stated, of the basename(p) call that has just ended: it returned
\* the final component of p, and for a p that terminates in `..` it ended
\* the process with status 1 after one ERROR message was written.
C11_BasenameExitsLoggingError ==
    (last = "basename")
    => LET o == unwrap(outcome)
           p == o.arg
       IN  IF EndsInParentDir(p)
           THEN /\ o.ret = "exit(1)"
                /\ Len(written) = 1
                /\ written[1].level = "ERROR"
           ELSE (components(p) # << >> /\ FinalComponent(p).kind = "Normal")
                => (o.ret = "name" /\ o.val = FinalComponent(p).name)

\* C11, amended, of the basename(p) call that has just ended: it returned
\* the final component of p when that is a normal one. Otherwise (p
\* terminates in `..`, is empty, or is only the root or `.`) it ended the
\* process with status 1, having sent one ERROR message to the global
\* logger: the logger wrote one line for it exactly when it is initialised
\* and its threshold is not above ERROR, shown as ERROR unless the ceiling
\* is below ERROR.
C11_BasenameOrExit ==
    (last = "basename")
    => LET o == unwrap(outcome)
           p == o.arg
           shown == /\ is_some(GLOBAL_BOGGER)
                    /\ unwrap(GLOBAL_BOGGER).min_level[1] <= priority("ERROR")
       IN  IF components(p) # << >> /\ FinalComponent(p).kind = "Normal"
           THEN o.ret = "name" /\ o.val = FinalComponent(p).name /\ written = << >>
           ELSE /\ o.ret = "exit(1)"
                /\ shown => /\ Len(written) = 1
                            /\ written[1].level =
                                  IF unwrap(GLOBAL_BOGGER).downcast_to[1] < priority("ERROR")
                                  THEN unwrap(GLOBAL_BOGGER).downcast_to[2]
                                  ELSE "ERROR"
                /\ ~shown => written = << >>

\* basename ended the process on the path `/..` and the
\* initialised logger wrote the ERROR line.
C11_Witness ==
    /\ last = "basename"
    /\ is_some(outcome)
    /\ unwrap(outcome).arg = << "/", ".", "." >>
    /\ unwrap(outcome).ret = "exit(1)"
    /\ Len(written) = 1
    /\ written[1].level = "ERROR"

\* C12 as stated, of the spawn_script or exec_script call that has just
\* ended: the command it ran is `<shell> -c <script>` with <shell> the value
\* of the SHELL environment variable, or `/bin/sh` when SHELL is unset.
C12_ShellFromEnvironment ==
    (last \in { "spawn_script", "exec_script" })
    => unwrap(outcome).val =
          << IF is_some(environ) THEN unwrap(environ) ELSE "/bin/sh", "-c", unwrap(outcome).arg >>

\* C12, amended: the shell is read from the environment once, when the
\* SHELL static is first used (by the first spawn_script or exec_script call
\* or by the program itself), as the value of the SHELL environment variable
\* or `/bin/sh` when that is unset or not valid Unicode; it never changes
\* afterwards, and every spawn_script or exec_script call runs
\* `<shell> -c <script>` with that stored shell.
C12_ShellReadOnce ==
    [][ /\ (SHELL' # SHELL)
           => /\ SHELL = None
              /\ SHELL' = Some(<< IF is_some(environ) /\ unwrap(environ) # NotUnicode
                                  THEN unwrap(environ)
                                  ELSE "/bin/sh",
                                  "-c" >>)
        /\ (last' \in { "spawn_script", "exec_script" })
           => /\ is_some(SHELL')
              /\ unwrap(outcome').val = << unwrap(SHELL')[1], "-c", unwrap(outcome').arg >> ]_vars

\* spawn_script ran the script with the shell stored at first use although
\* SHELL has since been set to another value.
C12_Witness ==
    /\ last = "spawn_script"
    /\ environ = Some("/usr/bin/fish")
    /\ SHELL = Some(<< "/bin/zsh", "-c" >>)
    /\ unwrap(outcome).val = << "/bin/zsh", "-c", "s" >>

\* C13: in every state of the initialised logger, a bog call with level ALL
\* writes nothing to the sink.
C13_AllNeverShown ==
    [][ \A tag \in Tags, msg \in Msgs :
          (is_some(GLOBAL_BOGGER) /\ Bogger_bog("ALL", tag, msg)) => written' = << >> ]_vars

InClosure(t) ==
    /\ thr[t].pc = "run"
    /\ thr[t].frames # << >>
    /\ Head(thr[t].frames).phase = "closure"

\* C15: the mutex of the global logger is never held while a closure passed to
\* Bogger::with or Bogger::paused runs: a thread owns it only inside the locked
\* block of one call, which ends by dropping the guard, so a bog call, a
\* configuration call or a nested with or paused made from the closure finds
\* the mutex free or held by a thread that is about to release it.
C15_LockNotHeldInClosure ==
    /\ \A t \in Threads : InClosure(t) => lock # Some(t)
    /\ is_some(lock) => /\ thr[unwrap(lock)].pc = "locked"
                        /\ ENABLED thread_unlock(unwrap(lock))

\* The first thread, inside the closure of a with nested in the closure of
\* paused, holds the mutex for a bog call, right after the second thread's
\* configuration call has released it.
C15_Witness ==
    /\ lock = Some("t1")
    /\ thr["t1"].op.kind = "bog"
    /\ Len(thr["t1"].frames) = 2
    /\ thr["t1"].frames[1].kind = "with"
    /\ thr["t1"].frames[1].phase = "closure"
    /\ thr["t1"].frames[2].kind = "paused"
    /\ last = "filter_below"

\* The last call was of the reader fn, and it was given at least n items.
ReaderCalled(fn, n) ==
    /\ is_some(outcome)
    /\ unwrap(outcome).fn = fn
    /\ last = fn
    /\ Len(unwrap(outcome).arg[2]) >= n

\* What the last reader call was given.
MapGiven ==
    [ INVALID_FAIL |-> unwrap(outcome).arg[1],
      items        |-> unwrap(outcome).arg[2],
      f_errs       |-> unwrap(outcome).arg[3] ]

\* What the last reader call handed back.
MapGot ==
    [ ret   |-> unwrap(outcome).val[1],
      at    |-> unwrap(outcome).val[2],
      calls |-> unwrap(outcome).val[3] ]

\* Nothing before item i of the last reader call ends the call: no item the
\* callback fails on, no invalid chunk or unreadable line under INVALID_FAIL,
\* no read error in map_chunks.
NoAbortBefore(i) ==
    LET in == MapGiven
    IN  \A j \in 0 .. i - 1 :
            /\ in.items[j + 1] \in { "valid", "line" } => j \notin in.f_errs
            /\ in.items[j + 1] = "invalid" => ~in.INVALID_FAIL
            /\ in.items[j + 1] = "unread" => unwrap(outcome).fn = "map_reader_lines" /\ ~in.INVALID_FAIL

\* The policy of map_chunks on chunk i of the last call, when the call gets
\* as far as that chunk.
ChunkPolicy(i) ==
    LET in  == MapGiven
        out == MapGot
    IN  /\ (in.items[i + 1] = "invalid" /\ ~in.INVALID_FAIL)
            => /\ \A k \in 1 .. Len(out.calls) : out.calls[k] # i
               /\ out.at > i
        /\ (in.items[i + 1] = "invalid" /\ in.INVALID_FAIL)
            => out.ret = "Err(ChunkError)" /\ out.at = i
        /\ in.items[i + 1] = "unread"
            => out.ret = "Err(ChunkError)" /\ out.at = i

\* C16 as stated: in map_chunks an invalid chunk is skipped without a call of
\* the callback and reading goes on when INVALID_FAIL is false, it ends the
\* call with ChunkError(its index) when INVALID_FAIL is true, and a read error
\* ends the call with ChunkError(its index) under either setting.
C16_Utf8PolicyPerChunk ==
    ReaderCalled("map_chunks", 0) =>
        \A i \in 0 .. Len(MapGiven.items) - 1 :
            NoAbortBefore(i) => ChunkPolicy(i)

\* C16, amended: the policy holds for the chunks below the segment limit
\* (index u32::MAX); the chunk at the limit ends the call with
\* ChunkError(u32::MAX) whatever it holds and whatever INVALID_FAIL is.
C16_Utf8PolicyBelowLimit ==
    ReaderCalled("map_chunks", 0) =>
        \A i \in 0 .. Len(MapGiven.items) - 1 :
            NoAbortBefore(i) =>
                IF i < U32_MAX
                THEN ChunkPolicy(i)
                ELSE /\ MapGot.ret = "Err(ChunkError)"
                     /\ MapGot.at = U32_MAX

\* map_chunks without INVALID_FAIL skipped an invalid chunk, called the
\* callback on the valid chunk after it and returned Ok.
C16_Witness ==
    /\ ReaderCalled("map_chunks", 2)
    /\ ~MapGiven.INVALID_FAIL
    /\ MapGiven.items = << "invalid", "valid" >>
    /\ MapGot.calls = << 1 >>
    /\ MapGot.ret = "Ok"

\* The items of the last reader call that the callback is due on, in input
\* order: the valid chunks or readable lines before index n.
RECURSIVE DueBefore(_)
DueBefore(n) ==
    IF n = 0
    THEN << >>
    ELSE IF MapGiven.items[n] \in { "valid", "line" }
         THEN Append(DueBefore(n - 1), n - 1)
         ELSE DueBefore(n - 1)

\* The last reader call went by the callback: the callback was invoked once on
\* each valid item, in input order, up to where the call ended; if the callback
\* fails on one of the items the call gets to, the call returned Custom on the
\* first such item, which is the last item the callback was invoked on; and the
\* call returned Ok only if it got through every item with no callback error,
\* and no read error or invalid item that ends the call.
CallbackOrder ==
    LET in  == MapGiven
        out == MapGot
        n   == Len(in.items)
    IN  /\ out.calls = DueBefore(IF out.ret = "Err(Custom)" THEN out.at + 1 ELSE out.at)
        /\ \A i \in 0 .. n - 1 :
              (NoAbortBefore(i) /\ i < U32_MAX /\ in.items[i + 1] \in { "valid", "line" }
                 /\ i \in in.f_errs)
              => /\ out.ret = "Err(Custom)"
                 /\ out.at = i
                 /\ out.calls[Len(out.calls)] = i
        /\ out.ret = "Ok" => /\ out.at = n
                             /\ NoAbortBefore(n)

\* C17: map_chunks and map_reader_lines invoke the callback once per valid
\* chunk or line, in input order; as soon as the callback returns Err(e) the
\* call returns Custom(e) and the callback is not invoked on later items; the
\* call returns Ok only after the whole input has been consumed without an
\* aborting error.
C17_CallbackOncePerItemInOrder ==
    (ReaderCalled("map_chunks", 0) \/ ReaderCalled("map_reader_lines", 0)) => CallbackOrder

\* map_reader_lines skipped an unreadable line, invoked the callback on the
\* line after it and returned Custom from that call, without invoking the
\* callback on the last line, where it would have failed too.
C17_Witness ==
    /\ ReaderCalled("map_reader_lines", 3)
    /\ MapGiven.items[1] = "unread"
    /\ MapGiven.items[2] = "line"
    /\ MapGiven.items[3] = "line"
    /\ MapGiven.f_errs = { 1, 2 }
    /\ MapGot.calls = << 1 >>
    /\ MapGot.ret = "Err(Custom)"

\* C18: while init_bogger has not been called, Bogger::bog, filter_below,
\* downcast_above, pause and resume write nothing and leave the global state
\* uninitialised, and so do both blocks of Bogger::with, which runs its closure
\* exactly once and returns the closure's result.
C18_NoOpsBeforeInit ==
    [][ GLOBAL_BOGGER = None =>
          \A t \in Threads :
             /\ (\/ thread_bog(t)
                 \/ thread_filter_below(t)
                 \/ thread_downcast_above(t)
                 \/ thread_pause(t)
                 \/ thread_resume(t)
                 \/ thread_with_enter(t))
                => GLOBAL_BOGGER' = None /\ written' = << >>
             /\ thread_with_restore(t)
                => /\ GLOBAL_BOGGER' = None
                   /\ written' = << >>
                   /\ is_some(thr'[t].returned)
                   /\ unwrap(thr'[t].returned).runs = 1
                   /\ Head(thr[t].frames).result \in Results
                   /\ unwrap(thr'[t].returned).result = Head(thr[t].frames).result ]_vars

\* Bogger::with has run its closure once and returned the closure's result r2,
\* with the logger never initialised.
C18_Witness ==
    /\ GLOBAL_BOGGER = None
    /\ last = "with_exit"
    /\ thr["t1"].frames = << >>
    /\ is_some(thr["t1"].returned)
    /\ unwrap(thr["t1"].returned).kind = "with"
    /\ unwrap(thr["t1"].returned).result = "r2"
    /\ unwrap(thr["t1"].returned).runs = 1

\* Both threads have run one Bogger::with scope each and left it.
BothExited ==
    \A t \in Threads :
        /\ thr[t].pc = "run"
        /\ thr[t].frames = << >>
        /\ is_some(thr[t].returned)
        /\ unwrap(thr[t].returned).kind = "with"

\* The logger holds the prefix, suffix, tag override and bounds recorded in
\* the saved state fr.
SameAsSaved(fr) ==
    /\ unwrap(GLOBAL_BOGGER).prefix = unwrap(fr.prev_prefix)
    /\ unwrap(GLOBAL_BOGGER).suffix = unwrap(fr.prev_suffix)
    /\ unwrap(GLOBAL_BOGGER).tag_override = fr.prev_tag
    /\ bounds(unwrap(GLOBAL_BOGGER)) = unwrap(fr.prev_bounds)

\* C19: when two threads have each run a Bogger::with scope on the same
\* initialised logger, in whatever order their enter and exit steps were
\* taken, the prefix, suffix, tag override and bounds are those found by the
\* scope that was entered first, that is, those from before either scope.
C19_ConcurrentScopesRestore ==
    BothExited =>
        \A t \in Threads :
            LET before == unwrap(thr[t].returned).before
            IN  (is_some(before) /\ is_some(unwrap(before).prev_bounds))
                    => SameAsSaved(unwrap(before))

====
